---- MODULE Spec2Model ----
(***************************************************************************)
(* koatty_cacheable: the method-level cache-aside layer.                   *)
(*                                                                         *)
(*   store resolver   GetCacheStore / CloseCacheStore  (store.ts)          *)
(*   wrappers         CacheAble / CacheEvict           (cache.ts)          *)
(*   helpers          generateCacheKey, getParamIndex,                     *)
(*                    asyncDelayedExecution            (utils.ts)          *)
(*                                                                         *)
(* JavaScript runs one turn at a time: the code between two awaits is one  *)
(* atomic action, and every await is a point where other turns interleave. *)
(* A call to an async function runs synchronously up to its first await.   *)
(***************************************************************************)
EXTENDS Integers, Sequences, FiniteSets, TLC

(***************************************************************************)
(* Bounds of the model.                                                    *)
(***************************************************************************)
\* calls made in one behaviour, each by a caller of its own; callers run
\* concurrently
MaxCalls == 3

(***************************************************************************)
(* Program constants.                                                      *)
(***************************************************************************)
longKey == 128
DefaultTimeout == 300
DefaultDelay == 5000

Procs == 1..MaxCalls
Attempts == 1..MaxCalls
NoStore == 0
NoPromise == 0

(***************************************************************************)
(* JavaScript values: a type tag and a text.  A number's text is its       *)
(* decimal form, an object's text its JSON form.                           *)
(***************************************************************************)
Undefined == [t |-> "undefined", v |-> ""]
Null == [t |-> "null", v |-> ""]
Num(s) == [t |-> "num", v |-> s]
Str(s) == [t |-> "str", v |-> s]
Bool(s) == [t |-> "bool", v |-> s]
Obj(s) == [t |-> "obj", v |-> s]

Digits == <<"0", "1", "2", "3", "4", "5", "6", "7", "8", "9">>
IntText(n) == Digits[n + 1]
IdTexts == {"1", "2"}
VerTexts == {IntText(n) : n \in 0..9}
NumTexts == {i \o w : i \in IdTexts, w \in VerTexts} \cup {"123"}

ObjText(id, ver) == "{\"id\":" \o id \o ",\"ver\":" \o ver \o "}"
ObjTexts == {ObjText(i, w) : i \in IdTexts, w \in VerTexts}
\* an object that refers to itself: it has no JSON form
CyclicText == "[Circular]"

\* Helper.isEmpty (koatty_lib), as the wrappers use it on a value read back
isEmpty(x) ==
    CASE x.t \in {"undefined", "null"} -> TRUE
      [] x.t = "str" -> x.v \in {"", " "}
      [] x.t = "num" -> x.v = "NaN"
      [] x.t \in {"obj", "arr"} -> x.v \in {"{}", "[]"}
      [] OTHER -> FALSE

\* Helper.isJSONObj: a plain object or an array
isJSONObj(x) == x.t \in {"obj", "arr"}

\* JSON.stringify of an object: the result is [ok, val], ok = FALSE standing
\* for the TypeError it throws on a circular structure
JSONstringify(x) ==
    IF x.v = CyclicText THEN [ok |-> FALSE, val |-> Undefined]
    ELSE [ok |-> TRUE, val |-> Str(x.v)]

\* JSON.parse: the argument is converted to text, the text parsed; the
\* result is [ok, val], ok = FALSE standing for the SyntaxError
JSONparse(x) ==
    LET text == IF x.t = "null" THEN "null"
                ELSE IF x.t = "undefined" THEN "undefined" ELSE x.v
    IN  CASE text \in NumTexts -> [ok |-> TRUE, val |-> Num(text)]
          [] text \in ObjTexts -> [ok |-> TRUE, val |-> Obj(text)]
          [] text \in {"true", "false"} -> [ok |-> TRUE, val |-> Bool(text)]
          [] text = "null" -> [ok |-> TRUE, val |-> Null]
          [] OTHER -> [ok |-> FALSE, val |-> Undefined]

\* the value argument of store.set, evaluated before the call: [ok, val]
Encoded(result) ==
    IF isJSONObj(result) THEN JSONstringify(result) ELSE [ok |-> TRUE, val |-> result]

\* Helper.toString of an argument, as generateCacheKey uses it
toString(x) == IF x.t = "null" THEN "null" ELSE x.v

\* Helper.murmurHash: a fixed-width digest of the key (lossy)
murmurHash(key) == "murmur" \o IntText(Len(key) % 10)

(***************************************************************************)
(* utils.ts                                                                *)
(***************************************************************************)
\* funcParams.indexOf(param): 0-based, -1 when absent
RECURSIVE indexOf(_, _, _)
indexOf(funcParams, param, i) ==
    IF i > Len(funcParams) THEN -1
    ELSE IF funcParams[i] = param THEN i - 1
    ELSE indexOf(funcParams, param, i + 1)

\* mutant: declared names are bound by their position in the options
getParamIndex_positional(funcParams, params) ==
    [i \in 1..Len(params) |-> i - 1]

\* mutant: a name that is not found is bound to the first argument
getParamIndex_clamped(funcParams, params) ==
    [i \in 1..Len(params) |->
        IF indexOf(funcParams, params[i], 1) < 0 THEN 0
        ELSE indexOf(funcParams, params[i], 1)]

getParamIndex(funcParams, params) ==
    [i \in 1..Len(params) |-> indexOf(funcParams, params[i], 1)]

\* mutant: a falsy argument counts as no argument
propAt_truthy(props, paramIndex) ==
    IF paramIndex + 1 \in 1..Len(props)
          /\ props[paramIndex + 1] \notin
                {[t |-> "null", v |-> ""], [t |-> "num", v |-> "0"],
                 [t |-> "str", v |-> ""], [t |-> "bool", v |-> "false"]}
    THEN props[paramIndex + 1] ELSE [t |-> "undefined", v |-> ""]

\* props[paramIndex] of a JavaScript array: undefined beyond its length
propAt(props, paramIndex) ==
    IF paramIndex + 1 \in 1..Len(props) THEN props[paramIndex + 1] ELSE Undefined

\* mutant: the segments carry the values without the parameter names
RECURSIVE keySegments_unnamed(_, _, _, _, _)
keySegments_unnamed(key, i, paramIndexes, paramNames, props) ==
    IF i > Len(paramIndexes) THEN key
    ELSE LET paramIndex == paramIndexes[i]
             next == IF paramIndex >= 0 /\ propAt(props, paramIndex) # Undefined
                     THEN key \o ":" \o toString(propAt(props, paramIndex))
                     ELSE key
         IN  keySegments_unnamed(next, i + 1, paramIndexes, paramNames, props)

RECURSIVE keySegments(_, _, _, _, _)
keySegments(key, i, paramIndexes, paramNames, props) ==
    IF i > Len(paramIndexes) THEN key
    ELSE LET paramIndex == paramIndexes[i]
             next == IF paramIndex >= 0 /\ propAt(props, paramIndex) # Undefined
                     THEN key \o ":" \o paramNames[i] \o ":"
                              \o toString(propAt(props, paramIndex))
                     ELSE key
         IN  keySegments(next, i + 1, paramIndexes, paramNames, props)

\* mutant: no hash fallback for a long key
generateCacheKey_raw(cacheName, paramIndexes, paramNames, props) ==
    keySegments(cacheName, 1, paramIndexes, paramNames, props)

generateCacheKey(cacheName, paramIndexes, paramNames, props) ==
    LET key == keySegments(cacheName, 1, paramIndexes, paramNames, props)
    IN  IF Len(key) > longKey THEN murmurHash(key) ELSE key

(***************************************************************************)
(* The decorated methods of the application under study: one read method   *)
(* and two update methods on the same cache name.                          *)
(***************************************************************************)
Methods ==
    [ getUser |-> [kind |-> "able", cacheName |-> "user", params |-> <<"id">>,
                   funcParams |-> <<"id", "flag">>, timeout |-> DefaultTimeout,
                   delayedDoubleDeletion |-> FALSE],
      setUser |-> [kind |-> "evict", cacheName |-> "user", params |-> <<"id">>,
                   funcParams |-> <<"id", "flag">>, timeout |-> 0,
                   delayedDoubleDeletion |-> TRUE],
      delUser |-> [kind |-> "evict", cacheName |-> "user", params |-> <<"id">>,
                   funcParams |-> <<"id", "flag">>, timeout |-> 0,
                   delayedDoubleDeletion |-> FALSE] ]
MethodNames == {"getUser", "setUser", "delUser"}

\* argument lists the callers pass: (id, flag)
ArgLists == { <<Str("1"), Str("a")>> }

\* the key a wrapped call derives (the decorator binds the indexes once)
keyOf(m, props) ==
    generateCacheKey(Methods[m].cacheName,
                     getParamIndex(Methods[m].funcParams, Methods[m].params),
                     Methods[m].params, props)

Keys == {keyOf(m, a) : m \in MethodNames, a \in ArgLists}

\* the store is shared: it has keys that none of these methods derives, such
\* as the key of a method of the same cache name that declares a further
\* parameter (params: ["id", "flag"])
OtherKey ==
    generateCacheKey("user", getParamIndex(<<"id", "flag">>, <<"id", "flag">>),
                     <<"id", "flag">>, <<Str("1"), Str("a")>>)
StoreKeys == Keys \cup {OtherKey}

\* what the wrapped operations return
RetKinds == {"obj", "str", "numstr", "null", "cyclic"}
opResult(kind, props, ver) ==
    CASE kind = "obj" -> Obj(ObjText(props[1].v, IntText(ver)))
      [] kind = "num" -> Num(props[1].v \o IntText(ver))
      [] kind = "str" -> Str("hello")
      [] kind = "numstr" -> Str("123")
      [] kind = "bool" -> Bool("true")
      [] kind = "cyclic" -> Obj(CyclicText)
      [] OTHER -> Null

(***************************************************************************)
(* State.                                                                  *)
(***************************************************************************)
VARIABLES
    storeCache,   \* store.ts storeCache.store: a handle, or NoStore (null)
    initPromise,  \* store.ts initPromise: an attempt's promise, or NoPromise
    attempts,     \* the initialization attempts (one handle each) so far
    data,         \* the backing store's entries, by key
    db,           \* version of the data the wrapped operations read and update
    timers,       \* deferred deletes scheduled by asyncDelayedExecution
    populated,    \* history: keys written by a CacheAble miss and not removed since
    origin,       \* history: per key, what the miss that wrote the entry returned
    call,         \* per caller: the call it is in, with its locals and its log
    last,         \* history: the call that returned last, or the deferred
                  \* delete that fired last, as it ended
    retKind,      \* what the wrapped operations of this run return
    derived,      \* a decoration (cacheName, params) and the last two keys
                  \* derived for calls of methods that carry it
    config,       \* the CacheManager's global defaults, and what the last
                  \* call of a method decorated without or with its own
                  \* options did with them
    variant       \* one invocation of a wrapper of the other variants of
                  \* the decorators (cache.ts, inject.ts, the older index.ts)

vars == <<storeCache, initPromise, attempts, data, db, timers, populated, origin,
          call, last, retKind, derived, config, variant>>

Absent == [t |-> "absent", v |-> ""]
NoOutcome == [st |-> "none", v |-> Undefined]
Returned(x) == [st |-> "ret", v |-> x]
Thrown(e) == [st |-> "throw", v |-> Str(e)]

Idle ==
    [pc |-> "idle", m |-> "none", args |-> <<>>, store |-> NoStore,
     wait |-> NoPromise, key |-> "", res |-> Undefined, result |-> Undefined,
     out |-> NoOutcome, log |-> <<>>, during |-> NoPromise, started |-> FALSE,
     warm |-> FALSE, held |-> Absent, snap |-> Absent, rewritten |-> FALSE,
     origin |-> Absent, lost |-> FALSE, evicts |-> {},
     n |-> 0]

UnusedAttempt ==
    [st |-> "unused", conn |-> FALSE, ret |-> NoStore, clean |-> TRUE, up |-> FALSE,
     closed |-> FALSE]

\* no call has used the global defaults yet
NoConfigCall ==
    [op |-> "none", opt |-> Undefined, global |-> Undefined, ttl |-> Undefined,
     dels |-> 0, scheduled |-> FALSE, scheduledMerged |-> FALSE, pending |-> FALSE]

\* CacheManager: defaultTimeout = 300, defaultDelayedDoubleDeletion = true
NewCacheManager ==
    [defaultTimeout |-> Num("300"), defaultDelayedDoubleDeletion |-> Bool("true"),
     seen |-> NoConfigCall]

\* no wrapper of the other variants invoked yet
NoVariantCall ==
    [w |-> "none", opt |-> Undefined, pc |-> "idle", runs |-> 0, dels |-> 0,
     scheduled |-> FALSE, out |-> NoOutcome]

\* no key derived yet
NoKeyCall == [funcParams |-> <<>>, props |-> <<>>, key |-> "", made |-> FALSE]

Init ==
    /\ storeCache = NoStore
    /\ initPromise = NoPromise
    /\ attempts = [a \in Attempts |-> UnusedAttempt]
    /\ data = [k \in StoreKeys |-> Absent]
    /\ db = 0
    /\ timers = {}
    /\ populated = {}
    /\ origin = [k \in StoreKeys |-> Absent]
    /\ call = [p \in Procs |-> Idle]
    /\ last = Idle
    /\ retKind \in RetKinds
    /\ derived = [cacheName |-> "", params |-> <<>>, prev |-> NoKeyCall,
                  cur |-> NoKeyCall]
    /\ config = NewCacheManager
    /\ variant = NoVariantCall

\* callers are numbered in the order in which they make their call
Free(p) == call[p].pc = "idle" /\ (p > 1 => call[p - 1].pc # "idle")

(***************************************************************************)
(* The store (koatty_store CacheStore), as the wrappers use it.  An        *)
(* operation takes effect when it is issued, or fails and changes nothing. *)
(***************************************************************************)
\* store.get(key): the entry, null when there is none
storeGet(d, key) == IF d[key] = Absent THEN Null ELSE d[key]
\* store.set(key, value, timeout)
storeSet(d, key, value, ok) == IF ok THEN [d EXCEPT ![key] = value] ELSE d
\* store.del(key)
storeDel(d, key, ok) == IF ok THEN [d EXCEPT ![key] = Absent] ELSE d

LogEntry(op, key, ok, arg) == [op |-> op, key |-> key, ok |-> ok, arg |-> arg]

(***************************************************************************)
(* store.ts: GetCacheStore                                                 *)
(***************************************************************************)
\* storeCache.store && storeCache.store.getConnection
hasLiveHandle(sc, atts) == sc # NoStore /\ atts[sc].conn

\* the cached handle completed its connection and has lost it since
lostHandle(sc, atts) ==
    IF sc = NoStore THEN FALSE ELSE atts[sc].st = "ok" /\ ~atts[sc].up

\* mutant: a call with options always goes on to initialize
resolvePath_restart(sc, ip, atts, hasOptions) ==
    IF hasOptions THEN (IF ip # NoPromise THEN "join" ELSE "start")
    ELSE IF sc # NoStore /\ atts[sc].conn THEN "fast"
    ELSE IF ip # NoPromise THEN "join"
    ELSE "bare"

\* mutant: no tracking of the initialization in flight; a handle counts only
\* once it is connected
resolvePath_untracked(sc, ip, atts, hasOptions) ==
    IF sc # NoStore /\ atts[sc].st = "ok" THEN "fast"
    ELSE IF ~hasOptions THEN "bare"
    ELSE "start"

\* the synchronous part of GetCacheStore: which return it reaches
resolvePath(sc, ip, atts, hasOptions) ==
    IF hasLiveHandle(sc, atts) THEN "fast"
    ELSE IF ip # NoPromise THEN "join"
    ELSE IF ~hasOptions THEN "bare"
    ELSE "start"

\* the attempt whose initialization is in flight at this moment, if any
inFlight == IF initPromise # NoPromise /\ attempts[initPromise].st = "pending"
            THEN initPromise ELSE NoPromise

NextAttempt == Cardinality({a \in Attempts : attempts[a].st # "unused"}) + 1

\* what initPromise holds once the statement initPromise = (async () => ...)()
\* has run: the promise the immediately invoked function returned
markerAfterStart(a) == a

\* the finally block of the initialization: initPromise = null
markerAfterSettle(ip, a) == NoPromise

\* the handle the initialization resolves with: return storeCache.store
handleAfterConnect(sc, a) == sc

\* a caller moves on within its call / returns from it
Step(p, c) == call' = [call EXCEPT ![p] = c] /\ last' = last
Return(p, c) ==
    /\ call' = [call EXCEPT ![p] = [Idle EXCEPT !.pc = "done"]]
    /\ last' = [c EXCEPT !.pc = "done"]

\* GetCacheStore(options), options not empty, up to its first await
GetCacheStore(p) ==
    /\ Free(p)
    /\ LET path == resolvePath(storeCache, initPromise, attempts, TRUE)
           a == NextAttempt
           c == [Idle EXCEPT !.m = "init", !.during = inFlight,
                             !.lost = lostHandle(storeCache, attempts)]
       IN  CASE path = "fast" ->
                  /\ Return(p, [c EXCEPT !.store = storeCache,
                                         !.out = Returned(Undefined)])
                  /\ UNCHANGED <<storeCache, initPromise, attempts>>
             [] path = "join" ->
                  /\ Step(p, [c EXCEPT !.pc = "awaitInit", !.wait = initPromise])
                  /\ UNCHANGED <<storeCache, initPromise, attempts>>
             [] OTHER ->
                  \* storeCache.store = CacheStore.getInstance(options)
                  /\ a \in Attempts
                  /\ \E conn \in BOOLEAN :
                        attempts' = [attempts EXCEPT ![a] =
                            [st |-> IF conn THEN "pending" ELSE "fail", conn |-> conn,
                             ret |-> NoStore, clean |-> TRUE, up |-> FALSE,
                             closed |-> FALSE]]
                  /\ storeCache' = a
                  /\ initPromise' = markerAfterStart(a)
                  /\ Step(p, [c EXCEPT !.pc = "awaitInit", !.wait = a,
                                       !.during = IF inFlight # NoPromise
                                                  THEN inFlight ELSE a,
                                       !.started = TRUE])
    /\ UNCHANGED <<data, db, timers, populated, origin, retKind, derived, config, variant>>

\* await storeCache.store.client.getConnection() settles; then finally
Connected(a) ==
    /\ attempts[a].st = "pending"
    /\ \E ok \in BOOLEAN :
          attempts' = [attempts EXCEPT ![a].st = IF ok THEN "ok" ELSE "fail",
                          ![a].ret = IF ok THEN handleAfterConnect(storeCache, a)
                                     ELSE NoStore,
                          ![a].up = ok]
    /\ initPromise' = markerAfterSettle(initPromise, a)
    /\ UNCHANGED <<storeCache, data, db, timers, populated, origin, call,
                   last, retKind, derived, config, variant>>

\* a caller of GetCacheStore(options) resumes once the promise it was given settles
AwaitInit(p) ==
    /\ call[p].pc = "awaitInit"
    /\ attempts[call[p].wait].st \in {"ok", "fail"}
    /\ Return(p, [call[p] EXCEPT
                     !.store = attempts[call[p].wait].ret,
                     !.out = IF attempts[call[p].wait].st = "ok"
                             THEN Returned(Undefined) ELSE Thrown("StoreUnavailable")])
    /\ UNCHANGED <<storeCache, initPromise, attempts, data, db, timers,
                   populated, origin, retKind, derived, config, variant>>

\* the connection of a connected handle drops (the server goes away)
Disconnect(a) ==
    /\ attempts[a].st = "ok"
    /\ attempts[a].up
    /\ attempts' = [attempts EXCEPT ![a].up = FALSE]
    /\ UNCHANGED <<storeCache, initPromise, data, db, timers, populated, origin,
                   call, last, retKind, derived, config, variant>>

(***************************************************************************)
(* store.ts: CloseCacheStore                                               *)
(***************************************************************************)
\* a step of CloseCacheStore disturbs the initialization in flight
Disturb(atts) ==
    [a \in Attempts |-> IF atts[a].st = "pending"
                        THEN [atts[a] EXCEPT !.clean = FALSE] ELSE atts[a]]

\* up to the first await: client.quit() when there is a handle, else clearAllInstances()
CloseCacheStore(p) ==
    /\ Free(p)
    /\ Step(p, [Idle EXCEPT
                   !.pc = IF storeCache # NoStore THEN "closeQuit" ELSE "closeClear",
                   !.m = "close", !.store = storeCache])
    /\ attempts' = Disturb(attempts)
    /\ UNCHANGED <<storeCache, initPromise, data, db, timers, populated, origin, retKind, derived, config, variant>>

\* quit() settled (its error is swallowed); await CacheStore.clearAllInstances()
CloseQuit(p) ==
    /\ call[p].pc = "closeQuit"
    /\ \E ok \in BOOLEAN :
          Step(p, [call[p] EXCEPT !.pc = "closeClear",
                      !.log = Append(call[p].log, LogEntry("quit", "", ok, 0))])
    /\ attempts' = Disturb(attempts)
    /\ UNCHANGED <<storeCache, initPromise, data, db, timers, populated, origin, retKind, derived, config, variant>>

\* mutant: CloseCacheStore leaves the initialization marker as it is
markerAfterClose_kept(ip) == ip

\* initPromise = null, the last statement of CloseCacheStore
markerAfterClose(ip) == NoPromise

\* mutant: CloseCacheStore leaves the cached handle in place
handleAfterClose_kept(sc) == sc

\* storeCache.store = null
handleAfterClose(sc) == NoStore

\* the handle whose client this call of CloseCacheStore has quit is closed
\* once the call completes
closeHandle(atts, h) ==
    IF h = NoStore THEN atts ELSE [atts EXCEPT ![h].closed = TRUE]

\* clearAllInstances() settled (its error is swallowed);
\* storeCache.store = null; initPromise = null
CloseClear(p) ==
    /\ call[p].pc = "closeClear"
    /\ storeCache' = handleAfterClose(storeCache)
    /\ initPromise' = markerAfterClose(initPromise)
    /\ attempts' = closeHandle(Disturb(attempts), call[p].store)
    /\ \E ok \in BOOLEAN :
          Return(p, [call[p] EXCEPT
                        !.log = Append(call[p].log, LogEntry("clear", "", ok, 0)),
                        !.out = Returned(Undefined)])
    /\ UNCHANGED <<data, db, timers, populated, origin, retKind, derived, config, variant>>

(***************************************************************************)
(* cache.ts: the wrapper CacheAble installs                                *)
(***************************************************************************)
\* mutant: the wrapper goes to the cache without checking the handle
useStore_unchecked(store) == TRUE

\* if (store): the wrapper uses the cache only with a handle
useStore(store) == store # NoStore

\* await GetCacheStore().catch(() => null): the value the wrapper continues with
resolvedStore(c, atts) ==
    IF c.wait = NoPromise THEN c.store
    ELSE IF atts[c.wait].st = "ok" THEN atts[c.wait].ret ELSE NoStore

\* await store.get(key).catch(() => undefined)
caughtGet(d, key, ok) == IF ok THEN storeGet(d, key) ELSE Undefined

\* mutant: nothing read is served, the operation runs every time
isHit_never(res) == FALSE

\* a read value is served when it is not empty and parses
isHit(res) == ~isEmpty(res) /\ JSONparse(res).ok

\* mutant: an entry that does not parse is left alone
isCorrupt_ignored(res) == FALSE

\* a read value that is not empty and does not parse: the entry is deleted
isCorrupt(res) == ~isEmpty(res) /\ ~JSONparse(res).ok

\* the value a hit returns: JSON.parse(res)
hitValue(res) == JSONparse(res).val

\* the value a miss returns: return result
missValue(result) == result

\* mutant: the wrapper swallows the error of the wrapped operation
propagate_swallowed(e) == Returned(Undefined)

\* an error of the wrapped operation: nothing catches it
propagate(e) == Thrown(e)

\* mutant: the wrapper awaits the set and fails with it
afterSet_awaited(result, ok) ==
    IF ok THEN Returned(missValue(result)) ELSE Thrown("StoreError")

\* store.set(...).catch(...) is not awaited: return result, however the set ends
afterSet(result, ok) == Returned(missValue(result))

\* mutant: the wrappers resolve the store with options of their own
wrapperOptions_given == TRUE

\* await GetCacheStore(): the wrappers pass no options
wrapperOptions == FALSE

\* a wrapped method is called: GetCacheStore() without options, up to the
\* await.  It is the same function: called with options it would go on to
\* the initialization block
Call(p, m, props) ==
    /\ Free(p)
    /\ LET path == resolvePath(storeCache, initPromise, attempts, wrapperOptions)
           a == NextAttempt
           starts == path = "start" /\ a \in Attempts
       IN  /\ Step(p, [Idle EXCEPT !.pc = "resolve", !.m = m, !.args = props,
                          !.store = IF path \in {"join", "start"} THEN NoStore
                                    ELSE storeCache,
                          !.wait = IF path = "join" THEN initPromise
                                   ELSE IF starts THEN a ELSE NoPromise,
                          !.warm = keyOf(m, props) \in populated,
                          !.n = p])
           /\ IF starts
              THEN /\ attempts' = [attempts EXCEPT ![a] =
                          [st |-> "pending", conn |-> TRUE, ret |-> NoStore,
                           clean |-> TRUE, up |-> FALSE, closed |-> FALSE]]
                   /\ storeCache' = a
                   /\ initPromise' = markerAfterStart(a)
              ELSE UNCHANGED <<storeCache, initPromise, attempts>>
    /\ UNCHANGED <<data, db, timers, populated, origin, retKind, derived, config, variant>>

Settled(c) ==
    IF c.wait = NoPromise THEN TRUE ELSE attempts[c.wait].st \in {"ok", "fail"}

\* CacheAble, the store resolved: derive the key and issue the get
AbleGet(p) ==
    LET c == call[p]
        store == resolvedStore(c, attempts)
        key == keyOf(c.m, c.args)
    IN  /\ c.pc = "resolve"
        /\ Methods[c.m].kind = "able"
        /\ Settled(c)
        /\ useStore(store)
        /\ \E ok \in BOOLEAN :
              Step(p, [c EXCEPT !.pc = "afterGet", !.store = store, !.key = key,
                          !.res = caughtGet(data, key, ok),
                          !.log = Append(c.log, LogEntry("get", key, ok, 0)),
                          !.warm = c.warm /\ ok /\ key \in populated,
                          !.origin = IF ok THEN origin[key] ELSE Absent])
        /\ UNCHANGED <<storeCache, initPromise, attempts, data, db, timers,
                       populated, origin, retKind, derived, config, variant>>

\* a wrapper without a store runs the operation directly: return value.apply(...)
Direct(p) ==
    LET c == call[p]
        store == resolvedStore(c, attempts)
        evict == Methods[c.m].kind = "evict"
        ver == IF evict THEN db + 1 ELSE db
    IN  /\ c.pc = "resolve"
        /\ Settled(c)
        /\ ~useStore(store)
        /\ \E throws \in BOOLEAN :
              /\ Return(p, [c EXCEPT !.store = store,
                               !.log = Append(c.log, LogEntry("run", "", ~throws, 0)),
                               !.result = IF throws THEN Undefined
                                          ELSE opResult(retKind, c.args, ver),
                               !.out = IF throws THEN propagate("OperationError")
                                       ELSE Returned(opResult(retKind, c.args, ver))])
              /\ db' = IF throws THEN db ELSE ver
        /\ UNCHANGED <<storeCache, initPromise, attempts, data, timers,
                       populated, origin, retKind, derived, config, variant>>

\* CacheAble after the get: serve the hit, or delete a corrupt entry and run
\* the operation
AbleAfterGet(p) ==
    LET c == call[p]
    IN  /\ c.pc = "afterGet"
        /\ IF isHit(c.res)
           THEN /\ Return(p, [c EXCEPT !.out = Returned(hitValue(c.res))])
                /\ UNCHANGED <<data, populated, origin>>
           ELSE \E okDel \in BOOLEAN, throws \in BOOLEAN :
                  LET log1 == IF isCorrupt(c.res)
                              THEN Append(c.log, LogEntry("del", c.key, okDel, 0))
                              ELSE c.log
                      c1 == [c EXCEPT
                               !.log = Append(log1, LogEntry("run", "", ~throws, 0)),
                               !.result = IF throws THEN Undefined
                                          ELSE opResult(retKind, c.args, db)]
                  IN  /\ (~isCorrupt(c.res) => okDel)
                      /\ data' = IF isCorrupt(c.res) THEN storeDel(data, c.key, okDel)
                                 ELSE data
                      /\ populated' = IF isCorrupt(c.res) /\ okDel
                                      THEN populated \ {c.key} ELSE populated
                      /\ origin' = IF isCorrupt(c.res) /\ okDel
                                   THEN [origin EXCEPT ![c.key] = Absent] ELSE origin
                      /\ IF throws
                         THEN Return(p, [c1 EXCEPT !.out = propagate("OperationError")])
                         ELSE Step(p, [c1 EXCEPT !.pc = "afterOp"])
        /\ UNCHANGED <<storeCache, initPromise, attempts, db, timers, retKind, derived, config, variant>>

\* mutant: a set is dropped when an eviction took effect after the call's get
setTakesEffect_unlessEvicted(c, ok) == ok /\ c.evicts = {}

\* mutant: a set is dropped when a deferred delete fired after the call's get
setTakesEffect_unlessDeferred(c, ok) == ok /\ "deferred" \notin c.evicts

\* store.set(key, value, timeout): the store writes whatever it is handed,
\* whenever it is handed it
setTakesEffect(c, ok) == ok

\* a set that lands on a key with a deferred delete pending
Rewrite(ts, key, ok) ==
    {IF ok /\ t.key = key THEN [t EXCEPT !.rewritten = TRUE] ELSE t : t \in ts}

\* CacheAble after the operation: encode the result, issue the set, not
\* awaited, and return; an error of the encoding leaves the wrapper uncaught
AbleAfterOp(p) ==
    LET c == call[p]
    IN  /\ c.pc = "afterOp"
        /\ Methods[c.m].kind = "able"
        /\ IF Encoded(c.result).ok
           THEN \E ok \in BOOLEAN :
                  /\ data' = storeSet(data, c.key, Encoded(c.result).val,
                                       setTakesEffect(c, ok))
                  /\ populated' = IF ok THEN populated \cup {c.key} ELSE populated
                  /\ origin' = IF ok THEN [origin EXCEPT ![c.key] = missValue(c.result)]
                               ELSE origin
                  /\ timers' = Rewrite(timers, c.key, ok)
                  /\ Return(p, [c EXCEPT
                                   !.log = Append(c.log,
                                        LogEntry("set", c.key, ok, Methods[c.m].timeout)),
                                   !.snap = storeGet(data', c.key),
                                   !.out = afterSet(c.result, ok)])
           ELSE /\ Return(p, [c EXCEPT !.out = Thrown("TypeError")])
                /\ UNCHANGED <<data, populated, origin, timers>>
        /\ UNCHANGED <<storeCache, initPromise, attempts, db,
                       retKind, derived, config, variant>>

\* history: a delete of an eviction (by, the evicting method, or "deferred")
\* that took effect is noted in every CacheAble call that has read the key
\* and has not returned yet
noteDelete(calls, key, ok, by) ==
    [q \in Procs |->
        IF ok /\ calls[q].pc \in {"afterGet", "afterOp"} /\ calls[q].key = key
              /\ Methods[calls[q].m].kind = "able"
        THEN [calls[q] EXCEPT !.evicts = @ \cup {by}]
        ELSE calls[q]]

(***************************************************************************)
(* cache.ts: the wrapper CacheEvict installs                               *)
(***************************************************************************)
\* mutant: the immediate delete goes to another key
evictKey_other(c) == OtherKey

\* mutant: the immediate delete also clears the entry with further segments
evictKey_longer(c) == OtherKey

\* the key the immediate delete targets
evictKey(c) == c.key

\* opt.delayedDoubleDeletion, true unless the decorator says otherwise
delayedDoubleDeletion(m) == Methods[m].delayedDoubleDeletion

\* CacheEvict, the store resolved: derive the key and run the operation
EvictRun(p) ==
    LET c == call[p]
        store == resolvedStore(c, attempts)
        key == keyOf(c.m, c.args)
    IN  /\ c.pc = "resolve"
        /\ Methods[c.m].kind = "evict"
        /\ Settled(c)
        /\ useStore(store)
        /\ \E throws \in BOOLEAN :
              LET c1 == [c EXCEPT !.store = store, !.key = key,
                            !.log = Append(c.log, LogEntry("run", "", ~throws, 0)),
                            !.result = IF throws THEN Undefined
                                       ELSE opResult(retKind, c.args, db + 1)]
              IN  /\ IF throws
                     THEN Return(p, [c1 EXCEPT !.out = propagate("OperationError")])
                     ELSE Step(p, [c1 EXCEPT !.pc = "afterOp"])
                  /\ db' = IF throws THEN db ELSE db + 1
        /\ UNCHANGED <<storeCache, initPromise, attempts, data, timers,
                       populated, origin, retKind, derived, config, variant>>

\* CacheEvict after the operation: delete, schedule the deferred delete, return
EvictAfterOp(p) ==
    LET c == call[p]
    IN  /\ c.pc = "afterOp"
        /\ Methods[c.m].kind = "evict"
        /\ \E ok \in BOOLEAN :
              /\ data' = storeDel(data, evictKey(c), ok)
              /\ populated' = IF ok THEN populated \ {evictKey(c)} ELSE populated
              /\ origin' = IF ok THEN [origin EXCEPT ![evictKey(c)] = Absent] ELSE origin
              /\ call' = noteDelete([call EXCEPT ![p] = [Idle EXCEPT !.pc = "done"]],
                                     evictKey(c), ok, c.m)
              /\ last' = [c EXCEPT
                             !.pc = "done",
                             !.log = Append(c.log, LogEntry("del", evictKey(c), ok, 0)),
                             !.held = storeGet(data, c.key),
                             !.snap = storeGet(data', c.key),
                             !.out = Returned(c.result)]
        /\ timers' = IF delayedDoubleDeletion(c.m)
                     THEN timers \cup {[n |-> c.n, key |-> evictKey(c), h |-> c.store,
                                        delay |-> DefaultDelay, rewritten |-> FALSE]}
                     ELSE timers
        /\ UNCHANGED <<storeCache, initPromise, attempts, db,
                       retKind, derived, config, variant>>

(***************************************************************************)
(* utils.ts: asyncDelayedExecution, the deferred delete                    *)
(***************************************************************************)
\* mutant: the deferred closure deletes another key
deferredKey_other(t) == OtherKey

\* the key the deferred closure deletes
deferredKey(t) == t.key

\* mutant: a deferred delete that failed stays scheduled and is tried again
timersAfterFire_retry(ts, t, ok) == IF ok THEN ts \ {t} ELSE ts

\* setTimeout fires once: the timer is gone whether or not fn() succeeded
timersAfterFire(ts, t, ok) == ts \ {t}

DeferredDelete(t) ==
    /\ t \in timers
    /\ \E ok \in BOOLEAN :
          /\ data' = storeDel(data, deferredKey(t), ok)
          /\ populated' = IF ok THEN populated \ {deferredKey(t)} ELSE populated
          /\ origin' = IF ok THEN [origin EXCEPT ![deferredKey(t)] = Absent] ELSE origin
          /\ last' = [Idle EXCEPT !.pc = "done", !.m = "deferred", !.n = t.n,
                                  !.store = t.h, !.key = t.key,
                                  !.log = <<LogEntry("del", deferredKey(t), ok, 0)>>,
                                  !.rewritten = t.rewritten,
                                  !.held = storeGet(data, t.key),
                                  !.snap = storeGet(data', t.key)]
          /\ timers' = timersAfterFire(timers, t, ok)
          /\ call' = noteDelete(call, deferredKey(t), ok, "deferred")
    /\ UNCHANGED <<storeCache, initPromise, attempts, db, retKind, derived, config, variant>>

\* the store expires an entry (its TTL has passed)
Expire(k) ==
    /\ data[k] # Absent
    /\ data' = [data EXCEPT ![k] = Absent]
    /\ populated' = populated \ {k}
    /\ origin' = [origin EXCEPT ![k] = Absent]
    /\ UNCHANGED <<storeCache, initPromise, attempts, db, timers, call, last, retKind, derived, config, variant>>

Next ==
    \/ \E p \in Procs : GetCacheStore(p)
    \/ \E a \in Attempts : Connected(a)
    \/ \E p \in Procs : AwaitInit(p)
    \/ \E p \in Procs : CloseCacheStore(p)
    \/ \E p \in Procs : CloseQuit(p)
    \/ \E p \in Procs : CloseClear(p)
    \/ \E p \in Procs, m \in MethodNames, props \in ArgLists : Call(p, m, props)
    \/ \E p \in Procs : AbleGet(p)
    \/ \E p \in Procs : Direct(p)
    \/ \E p \in Procs : AbleAfterGet(p)
    \/ \E p \in Procs : AbleAfterOp(p)
    \/ \E p \in Procs : EvictRun(p)
    \/ \E p \in Procs : EvictAfterOp(p)
    \/ \E t \in timers : DeferredDelete(t)
    \/ \E k \in Keys : Expire(k)

Spec == Init /\ [][Next]_vars

\* the resolver alone: callers of GetCacheStore(options) and CloseCacheStore
NextResolver ==
    \/ \E p \in Procs : GetCacheStore(p)
    \/ \E a \in Attempts : Connected(a)
    \/ \E p \in Procs : AwaitInit(p)
    \/ \E p \in Procs : CloseCacheStore(p)
    \/ \E p \in Procs : CloseQuit(p)
    \/ \E p \in Procs : CloseClear(p)
    \/ \E a \in Attempts : Disconnect(a)

SpecResolver == Init /\ [][NextResolver]_vars

\* the entry another method of the same cache name cached earlier
OtherEntry == Str(ObjText("1", "0"))

\* the same, on a store that already holds that entry
InitShared ==
    /\ storeCache = NoStore
    /\ initPromise = NoPromise
    /\ attempts = [a \in Attempts |-> UnusedAttempt]
    /\ data = [k \in StoreKeys |-> IF k = OtherKey THEN OtherEntry ELSE Absent]
    /\ db = 0
    /\ timers = {}
    /\ populated = {}
    /\ origin = [k \in StoreKeys |-> Absent]
    /\ call = [p \in Procs |-> Idle]
    /\ last = Idle
    /\ retKind = "obj"
    /\ derived = [cacheName |-> "", params |-> <<>>, prev |-> NoKeyCall,
                  cur |-> NoKeyCall]
    /\ config = NewCacheManager
    /\ variant = NoVariantCall

SpecShared == InitShared /\ [][Next]_vars

(***************************************************************************)
(* index.ts: KoattyCached(options, app), the plugin.  It merges the         *)
(* options with the defaults and registers two handlers; the state it      *)
(* leaves is Init.  The host then emits appReady (handled once) and         *)
(* appStop (handled every time), while wrapped methods are being called.    *)
(***************************************************************************)
defaultOptions == [type |-> "memory", db |-> "0", timeout |-> "30"]

\* options the application may pass to the plugin
PluginOptions ==
    { [k \in {} |-> ""], [k \in {"type"} |-> "redis"], [k \in {"timeout"} |-> "60"] }

\* options = { ...defaultOptions, ...options }
KoattyCachedOptions(options) ==
    [k \in DOMAIN defaultOptions \cup DOMAIN options |->
        IF k \in DOMAIN options THEN options[k] ELSE defaultOptions[k]]

\* Helper.isEmpty(options), on an options object
isEmptyOptions(options) == DOMAIN options = {}

\* the appReady handler has run: it made the first GetCacheStore(options)
\* call, which found nothing cached and created the first instance
AppReadyEmitted == attempts[1].st # "unused"

\* app.once("appReady", ...): await GetCacheStore(options)
AppReady(p) ==
    /\ ~AppReadyEmitted
    /\ \E options \in PluginOptions : ~isEmptyOptions(KoattyCachedOptions(options))
    /\ GetCacheStore(p)

\* app.on("appStop", ...): await CloseCacheStore()
AppStop(p) == CloseCacheStore(p)

InitLifecycle == Init /\ retKind = "obj"

NextLifecycle ==
    \/ \E p \in Procs : AppReady(p)
    \/ \E a \in Attempts : Connected(a)
    \/ \E p \in Procs : AwaitInit(p)
    \/ \E p \in Procs : AppStop(p)
    \/ \E p \in Procs : CloseQuit(p)
    \/ \E p \in Procs : CloseClear(p)
    \/ \E p \in Procs, m \in MethodNames, props \in ArgLists : Call(p, m, props)
    \/ \E p \in Procs : AbleGet(p)
    \/ \E p \in Procs : Direct(p)
    \/ \E p \in Procs : AbleAfterGet(p)
    \/ \E p \in Procs : AbleAfterOp(p)
    \/ \E p \in Procs : EvictRun(p)
    \/ \E p \in Procs : EvictAfterOp(p)
    \/ \E t \in timers : DeferredDelete(t)

SpecLifecycle == InitLifecycle /\ [][NextLifecycle]_vars

\* the wrappers, the resolver and the timers, for operations that return
\* versioned objects
SpecRaces == InitLifecycle /\ [][Next]_vars

\* the timers of the host fire: a callback scheduled with setTimeout runs
\* once its delay has passed
SpecTimers ==
    /\ InitLifecycle
    /\ [][Next]_vars
    /\ WF_vars(\E t \in timers : DeferredDelete(t))

(***************************************************************************)
(* manager.ts and cache.ts: the global defaults of the CacheManager and     *)
(* what the wrappers make of them and of the decorator's own options.       *)
(* Undefined stands for an option or an argument that is not given.         *)
(***************************************************************************)
DecoratorTimeouts == {Undefined, Num("0"), Num("60"), Num("300")}
GlobalTimeouts == {Undefined, Num("0"), Num("100"), Num("250")}
Settings == {Undefined, Bool("true"), Bool("false")}

\* a value in a condition or on the left of ||
truthy(x) == x \notin {Undefined, Null, Num("0"), Num("NaN"), Str(""), Bool("false")}

\* setDefaultConfig(timeout?, delayedDoubleDeletion?)
setDefaultConfig(timeout, setting) ==
    /\ config' = [config EXCEPT
          !.defaultTimeout = IF timeout # Undefined THEN timeout ELSE @,
          !.defaultDelayedDoubleDeletion = IF setting # Undefined THEN setting ELSE @]
    /\ UNCHANGED <<storeCache, initPromise, attempts, data, db, timers, populated,
                   origin, call, last, retKind, derived, variant>>

getDefaultTimeout(cm) == cm.defaultTimeout
getDefaultDelayedDoubleDeletion(cm) == cm.defaultDelayedDoubleDeletion

\* const timeout = options.timeout || cacheManager.getDefaultTimeout()
timeoutOf(optTimeout, cm) ==
    IF truthy(optTimeout) THEN optTimeout ELSE getDefaultTimeout(cm)

\* mutant: only the decorator's own option decides
enableDelayedDeletion_own(optSetting, cm) == optSetting

\* options.delayedDoubleDeletion !== undefined
\*     ? options.delayedDoubleDeletion : cacheManager.getDefaultDelayedDoubleDeletion()
enableDelayedDeletion(optSetting, cm) ==
    IF optSetting # Undefined THEN optSetting
    ELSE getDefaultDelayedDoubleDeletion(cm)

\* opt = { ...{ delayedDoubleDeletion: true }, ...opt }, the variant without
\* a CacheManager
mergedDelayedDoubleDeletion(optSetting) ==
    IF optSetting # Undefined THEN optSetting ELSE Bool("true")

\* a miss of a CacheAble method decorated with this timeout option: the set
MissSet(optTimeout) ==
    /\ config' = [config EXCEPT !.seen =
          [NoConfigCall EXCEPT !.op = "miss", !.opt = optTimeout,
                               !.global = getDefaultTimeout(config),
                               !.ttl = timeoutOf(optTimeout, config)]]
    /\ UNCHANGED <<storeCache, initPromise, attempts, data, db, timers, populated,
                   origin, call, last, retKind, derived, variant>>

\* a call of a CacheEvict method decorated with this delayedDoubleDeletion
\* option, after the operation: the delete, and the deferred delete or not
EvictDeletes(optSetting) ==
    /\ config' = [config EXCEPT !.seen =
          [NoConfigCall EXCEPT
              !.op = "evict", !.opt = optSetting,
              !.global = getDefaultDelayedDoubleDeletion(config),
              !.dels = 1,
              !.scheduled = enableDelayedDeletion(optSetting, config) # Bool("false"),
              !.pending = enableDelayedDeletion(optSetting, config) # Bool("false"),
              !.scheduledMerged = truthy(mergedDelayedDoubleDeletion(optSetting))]]
    /\ UNCHANGED <<storeCache, initPromise, attempts, data, db, timers, populated,
                   origin, call, last, retKind, derived, variant>>

\* the deferred delete of that call fires
EvictDeferred ==
    /\ config.seen.pending
    /\ config' = [config EXCEPT !.seen.pending = FALSE,
                                 !.seen.dels = config.seen.dels + 1]
    /\ UNCHANGED <<storeCache, initPromise, attempts, data, db, timers, populated,
                   origin, call, last, retKind, derived, variant>>

NextConfig ==
    \/ \E timeout \in GlobalTimeouts, setting \in Settings :
          setDefaultConfig(timeout, setting)
    \/ \E optTimeout \in DecoratorTimeouts : MissSet(optTimeout)
    \/ \E optSetting \in Settings : EvictDeletes(optSetting)
    \/ EvictDeferred

SpecConfig == InitLifecycle /\ [][NextConfig]_vars

(***************************************************************************)
(* The wrappers of the other variants, with a store at hand: cache.ts and   *)
(* inject.ts wrap their body in a try whose catch runs the original method, *)
(* the older CacheEvict returns through a second call of it when delayed    *)
(* double deletion is off.                                                  *)
(***************************************************************************)
Wrappers ==
    [ cacheAble   |-> [kind |-> "able",  catchAll |-> TRUE],
      cacheEvict  |-> [kind |-> "evict", catchAll |-> TRUE],
      injectEvict |-> [kind |-> "evict", catchAll |-> TRUE],
      olderEvict  |-> [kind |-> "evict", catchAll |-> FALSE] ]
WrapperNames == {"cacheAble", "cacheEvict", "injectEvict", "olderEvict"}

\* whether the wrapper schedules the deferred delete
schedulesDeferred(w, optSetting, cm) ==
    CASE w = "cacheEvict" -> enableDelayedDeletion(optSetting, cm) # Bool("false")
      [] w = "injectEvict" -> optSetting # Bool("false")
      [] w = "olderEvict" -> truthy(mergedDelayedDoubleDeletion(optSetting))
      [] OTHER -> FALSE

\* a wrapper is invoked; a CacheAble wrapper reads the cache and may hit
VariantCall(w, optSetting, hit) ==
    /\ variant.pc \in {"idle", "done"}
    /\ (Wrappers[w].kind = "able" => optSetting = Undefined)
    /\ (Wrappers[w].kind = "evict" => ~hit)
    /\ variant' = [NoVariantCall EXCEPT
                      !.w = w, !.opt = optSetting,
                      !.pc = IF hit THEN "done" ELSE "run",
                      !.out = IF hit THEN Returned(Str("cached")) ELSE NoOutcome]
    /\ UNCHANGED <<storeCache, initPromise, attempts, data, db, timers, populated,
                   origin, call, last, retKind, derived, config>>

\* await originalMethod.apply(this, args), and what follows it up to the
\* return or to a second call of the method
VariantRun(throws) ==
    LET v == variant
        w == Wrappers[v.w]
        deferred == schedulesDeferred(v.w, v.opt, config)
        v1 == [v EXCEPT !.runs = v.runs + 1]
    IN  /\ v.pc = "run"
        /\ variant' =
              IF throws
              THEN IF w.catchAll THEN [v1 EXCEPT !.pc = "fallback"]
                   ELSE [v1 EXCEPT !.pc = "done", !.out = Thrown("OperationError")]
              ELSE IF w.kind = "able"
                   THEN [v1 EXCEPT !.pc = "done", !.out = Returned(Str("result"))]
                   ELSE IF v.w = "olderEvict" /\ ~deferred
                        THEN [v1 EXCEPT !.dels = 1, !.pc = "fallback"]
                        ELSE [v1 EXCEPT !.dels = 1, !.scheduled = deferred,
                                        !.pc = "done",
                                        !.out = Returned(Str("result"))]
        /\ UNCHANGED <<storeCache, initPromise, attempts, data, db, timers, populated,
                       origin, call, last, retKind, derived, config>>

\* return originalMethod.apply(this, args): in the catch, or in the else
\* branch of the older CacheEvict
VariantFallback(throws) ==
    /\ variant.pc = "fallback"
    /\ variant' = [variant EXCEPT
                      !.runs = variant.runs + 1,
                      !.pc = "done",
                      !.out = IF throws THEN Thrown("OperationError")
                              ELSE Returned(Str("result"))]
    /\ UNCHANGED <<storeCache, initPromise, attempts, data, db, timers, populated,
                   origin, call, last, retKind, derived, config>>

NextVariants ==
    \/ \E w \in WrapperNames, optSetting \in Settings, hit \in BOOLEAN :
          VariantCall(w, optSetting, hit)
    \/ \E throws \in BOOLEAN : VariantRun(throws)
    \/ \E throws \in BOOLEAN : VariantFallback(throws)
    \/ \E timeout \in GlobalTimeouts, setting \in Settings :
          setDefaultConfig(timeout, setting)

SpecVariants == InitLifecycle /\ [][NextVariants]_vars

(***************************************************************************)
(* Key derivation on its own: one decoration, and calls of the methods     *)
(* that carry it, each with its own signature and arguments.               *)
(***************************************************************************)
\* a parameter value longer than longKey
LongText ==
    "xxxxxxxxxxxxxxxxxxxxxxxxxxxxxxxxxxxxxxxxxxxxxxxxxxxxxxxxxxxxxxxxx" \o
    "xxxxxxxxxxxxxxxxxxxxxxxxxxxxxxxxxxxxxxxxxxxxxxxxxxxxxxxxxxxxxxxxx"

\* params of the decorator options; "ghost" names no parameter of any method
ParamLists == {<<>>, <<"id">>, <<"id", "name">>, <<"name", "id">>, <<"ghost">>,
               <<"id", "ghost">>}
\* the decorations under study: (cacheName, params)
Decorations ==
    {[cacheName |-> "user", params |-> ps] : ps \in ParamLists}
        \cup {[cacheName |-> "stats", params |-> <<>>]}
\* getArgs of the decorated methods
Signatures == {<<"id", "name">>, <<"name", "id">>, <<"flag", "id", "name">>}
\* "42:name:42" is an argument that contains the separator
ArgValues == {Undefined, Null, Num("0"), Str(""), Bool("false"), Str("42"),
              Str("42:name:42"), Str(LongText)}
\* props of a call: up to two arguments
SecondValues == {Undefined, Num("0"), Str("42")}
PropLists == {<<>>} \cup {<<a>> : a \in ArgValues}
                 \cup {<<a, b>> : a \in ArgValues, b \in SecondValues}

InitKeys ==
    /\ storeCache = NoStore
    /\ initPromise = NoPromise
    /\ attempts = [a \in Attempts |-> UnusedAttempt]
    /\ data = [k \in StoreKeys |-> Absent]
    /\ db = 0
    /\ timers = {}
    /\ populated = {}
    /\ origin = [k \in StoreKeys |-> Absent]
    /\ call = [p \in Procs |-> Idle]
    /\ last = Idle
    /\ retKind = "obj"
    /\ \E d \in Decorations :
          derived = [cacheName |-> d.cacheName, params |-> d.params,
                     prev |-> NoKeyCall, cur |-> NoKeyCall]
    /\ config = NewCacheManager
    /\ variant = NoVariantCall

\* a call of a method decorated with (derived.cacheName, derived.params):
\* the indexes bound at decoration, the key derived in the wrapper
DeriveKey(funcParams, props) ==
    /\ derived' = [derived EXCEPT
          !.prev = derived.cur,
          !.cur = [funcParams |-> funcParams, props |-> props,
                   key |-> generateCacheKey(derived.cacheName,
                               getParamIndex(funcParams, derived.params),
                               derived.params, props),
                   made |-> TRUE]]
    /\ UNCHANGED <<storeCache, initPromise, attempts, data, db, timers, populated,
                   origin, call, last, retKind, config, variant>>

NextKeys == \E funcParams \in Signatures, props \in PropLists : DeriveKey(funcParams, props)

SpecKeys == InitKeys /\ [][NextKeys]_vars

(***************************************************************************)
(* Properties.  They read the history of the call that returned last.      *)
(***************************************************************************)
AbleNames == {m \in MethodNames : Methods[m].kind = "able"}
EvictNames == {m \in MethodNames : Methods[m].kind = "evict"}
Wrapped(c) == c.pc = "done" /\ c.m \in MethodNames

Entries(c, ops) == {i \in DOMAIN c.log : c.log[i].op \in ops}
StoreOps == {"get", "set", "del"}
Runs(c) == Cardinality(Entries(c, {"run"}))
\* the call's outcome is the outcome of its one run of the operation
OutcomeIsOperation(c) ==
    /\ Runs(c) = 1
    /\ \A i \in Entries(c, {"run"}) :
          c.out = IF c.log[i].ok THEN Returned(c.result) ELSE Thrown("OperationError")

\* C1: read-after-write.  A CacheAble call made after a CacheAble miss on
\* the same key has returned and written the entry, with the store working
\* and no delete or expiry of the key since, does not run the operation
\* and issues no set.
C1_ReadAfterWrite ==
    (Wrapped(last) /\ last.m \in AbleNames /\ last.warm)
        => (Runs(last) = 0 /\ Entries(last, {"set"}) = {})

\* C2: eviction clears state.  Once a CacheEvict call that derived K has
\* returned, a get of K right after it returns empty, whatever K held.
C2_EvictionClears ==
    (Wrapped(last) /\ last.m \in EvictNames /\ last.store # NoStore
        /\ last.out.st = "ret")
        => last.snap = Null

\* C2 as amended: the same, for a call whose immediate delete did not fail.
C2_EvictionClearsIfDeleted ==
    (Wrapped(last) /\ last.m \in EvictNames /\ last.store # NoStore
        /\ last.out.st = "ret"
        /\ \A i \in Entries(last, {"del"}) : last.log[i].ok)
        => last.snap = Null

C2_Witness ==
    /\ Wrapped(last) /\ last.m \in EvictNames /\ last.store # NoStore
    /\ last.out.st = "ret"
    /\ \A i \in Entries(last, {"del"}) : last.log[i].ok
    /\ last.held # Null
    /\ last.snap = Null

\* C3: delayed double deletion.  Once the deferred delete of a CacheEvict
\* call on K has been carried out, K is empty, also when a value was
\* written to K after the immediate delete.
C3_DeferredDeleteClears ==
    (last.pc = "done" /\ last.m = "deferred"
        /\ \A i \in Entries(last, {"del"}) : last.log[i].ok)
        => last.snap = Null

C3_Witness ==
    /\ last.pc = "done" /\ last.m = "deferred"
    /\ \A i \in Entries(last, {"del"}) : last.log[i].ok
    /\ last.rewritten /\ last.held # Null
    /\ last.snap = Null

\* C4: fault tolerance.  A wrapped call all of whose store operations
\* failed ran the operation once and ends as the operation ended: it
\* returns the operation's result, and throws only what the operation threw.
C4_FaultTolerance ==
    (Wrapped(last) /\ Entries(last, StoreOps) # {}
        /\ \A i \in Entries(last, StoreOps) : ~last.log[i].ok)
        => OutcomeIsOperation(last)

\* C5: the only error a wrapped call throws is the error of the wrapped
\* operation, unchanged; and an error of the operation always reaches the
\* caller.
C5_OnlyOperationErrors ==
    Wrapped(last) =>
        /\ (last.out.st = "throw" =>
               /\ last.out = Thrown("OperationError")
               /\ \E i \in Entries(last, {"run"}) : ~last.log[i].ok)
        /\ (\A i \in Entries(last, {"run"}) :
               ~last.log[i].ok => last.out = Thrown("OperationError"))
        /\ last.out.st # "none"

\* C6: single-flight initialization.  Of the GetCacheStore(options) calls
\* made while one initialization is in flight (the call that started it
\* included), none starts a second initialization, so the connection
\* routine is invoked once; and, with no CloseCacheStore in between, every
\* handle they resolve to is the one instance that initialization created,
\* which all of them resolve to when the connection succeeds.
C6_SingleFlight ==
    (last.pc = "done" /\ last.m = "init" /\ last.during # NoPromise
        /\ attempts[last.during].conn)
        => /\ (last.started => last.wait = last.during)
           /\ (attempts[last.during].clean =>
                  /\ ((last.out.st = "ret" /\ last.store # NoStore)
                         => last.store = last.during)
                  /\ (attempts[last.during].st = "ok"
                         => (last.out.st = "ret" /\ last.store = last.during)))

C6_Witness ==
    /\ last.pc = "done" /\ last.m = "init" /\ ~last.started
    /\ last.during # NoPromise
    /\ attempts[last.during].st = "ok" /\ attempts[last.during].clean
    /\ last.store = last.during

\* C7: the initialization marker is cleared when its attempt settles, on
\* success and on failure: a marker in place belongs to an attempt that is
\* still in flight.
C7_MarkerCleared ==
    initPromise # NoPromise => attempts[initPromise].st = "pending"

\* C8: a failed initialization leaves the resolver uninitialized: its
\* handle is not the cached handle and its promise is not the marker.
C8_FailureResets ==
    \A a \in Attempts :
        attempts[a].st = "fail" => (storeCache # a /\ initPromise # a)

\* C9: no GetCacheStore caller is handed a handle whose connection routine
\* has not completed successfully.
C9_NoEarlyHandle ==
    (last.pc = "done" /\ last.m = "init" /\ last.out.st = "ret"
        /\ last.store # NoStore)
        => attempts[last.store].st = "ok"

\* C10: a wrapped call that resolved no store handle runs the operation
\* once, ends as the operation ended and issues no get, set or delete.
C10_NoStoreRunsDirectly ==
    (Wrapped(last) /\ last.store = NoStore)
        => (OutcomeIsOperation(last) /\ Entries(last, StoreOps) = {})

C10_Witness ==
    /\ Wrapped(last) /\ last.store = NoStore /\ last.wait # NoPromise
    /\ last.out = Returned(last.result)
\* a CacheAble call that was served from the cache
Hit(c) == Wrapped(c) /\ c.m \in AbleNames /\ Runs(c) = 0 /\ c.out.st = "ret"
\* a CacheAble call whose operation ran and returned
Miss(c) ==
    /\ Wrapped(c) /\ c.m \in AbleNames /\ Runs(c) = 1
    /\ \A i \in Entries(c, {"run"}) : c.log[i].ok

\* C11: round-trip identity.  The value a CacheAble call returns on a hit
\* equals the value returned by the miss call that wrote the entry it read.
C11_RoundTrip ==
    (Hit(last) /\ last.origin # Absent) => last.out.v = last.origin

\* C12: a read value that is not empty and does not decode is a miss: the
\* call issues a delete of the key right after the get, runs the operation
\* once and ends as the operation ended (so it neither returns the value
\* read nor throws the decode error), whether the delete fails or not.
C12_CorruptIsMiss ==
    (Wrapped(last) /\ last.m \in AbleNames
        /\ ~isEmpty(last.res) /\ ~JSONparse(last.res).ok)
        => /\ Len(last.log) >= 2
           /\ last.log[2].op = "del" /\ last.log[2].key = last.key
           /\ OutcomeIsOperation(last)

C12_Witness ==
    /\ Wrapped(last) /\ last.m \in AbleNames
    /\ ~isEmpty(last.res) /\ ~JSONparse(last.res).ok
    /\ Len(last.log) >= 2 /\ last.log[2].op = "del" /\ ~last.log[2].ok
    /\ Runs(last) = 1
    /\ last.out = Returned(last.result)

\* C13: penetration guard TTL.  The entry a CacheAble call writes for an
\* empty result of the operation has a TTL strictly shorter than the
\* configured timeout.
C13_EmptyResultShortTTL ==
    (Miss(last) /\ isEmpty(last.result))
        => \A i \in Entries(last, {"set"}) : last.log[i].arg < Methods[last.m].timeout

\* C14: penetration guard effect.  A CacheAble call made while the entry
\* written for an empty result is live is served from the cache: it does
\* not run the operation.
C14_EmptyResultServed ==
    (Wrapped(last) /\ last.m \in AbleNames /\ last.warm
        /\ last.origin # Absent /\ isEmpty(last.origin))
        => Runs(last) = 0

(***************************************************************************)
(* Properties of the derived keys.                                         *)
(***************************************************************************)
\* the argument a call passes for the i-th declared parameter: undefined
\* when the method has no parameter of that name or the argument is missing
Passed(kc, i) ==
    LET idx == indexOf(kc.funcParams, derived.params[i], 1)
    IN  IF idx >= 0 /\ idx + 1 <= Len(kc.props) THEN kc.props[idx + 1] ELSE Undefined
Declared == 1..Len(derived.params)
SameDeclaredValues(kc1, kc2) == \A i \in Declared : Passed(kc1, i) = Passed(kc2, i)
\* the segment the i-th declared parameter contributes
Segment(kc, i) ==
    IF Passed(kc, i) = Undefined THEN ""
    ELSE ":" \o derived.params[i] \o ":" \o toString(Passed(kc, i))
\* the key as the format describes it, for up to two declared parameters
Assembled(kc) ==
    CASE Len(derived.params) = 0 -> derived.cacheName
      [] Len(derived.params) = 1 -> derived.cacheName \o Segment(kc, 1)
      [] OTHER -> derived.cacheName \o Segment(kc, 1) \o Segment(kc, 2)
RemoveAt(seq, i) == SubSeq(seq, 1, i - 1) \o SubSeq(seq, i + 1, Len(seq))
\* the key the same call derives when the names in params are declared
KeyWith(kc, params) ==
    generateCacheKey(derived.cacheName, getParamIndex(kc.funcParams, params),
                     params, kc.props)
Matched(kc) ==
    SelectSeq(derived.params, LAMBDA n : indexOf(kc.funcParams, n, 1) >= 0)
Falsy == {Null, Num("0"), Str(""), Bool("false")}

C16_KeyLengthBound ==
    derived.cur.made =>
        /\ Len(derived.cur.key) <= longKey
        /\ (Len(Assembled(derived.cur)) > longKey
               => derived.cur.key = murmurHash(Assembled(derived.cur)))
        /\ ((derived.prev.made
                /\ derived.prev.funcParams = derived.cur.funcParams
                /\ derived.prev.props = derived.cur.props)
               => derived.prev.key = derived.cur.key)

C16_Witness ==
    /\ derived.prev.made /\ derived.cur.made
    /\ derived.prev.funcParams = derived.cur.funcParams
    /\ derived.prev.props = derived.cur.props
    /\ Len(Assembled(derived.cur)) > longKey
    /\ derived.cur.key = murmurHash(Assembled(derived.cur))

\* C17: key format.  A key that needs no hashing is the cache name followed
\* by one ":name:value" segment per bound declared parameter, in the order
\* of the decorator options; with no declared parameter it is the cache
\* name; ("user", ["id"], "42") gives "user:id:42"; two methods that take
\* the declared parameters at different positions derive the same key for
\* the same values.
C17_KeyFormat ==
    derived.cur.made =>
        /\ (Len(Assembled(derived.cur)) <= longKey
               => derived.cur.key = Assembled(derived.cur))
        /\ (derived.params = <<>> => derived.cur.key = derived.cacheName)
        /\ ((derived.cacheName = "user" /\ derived.params = <<"id">>
                /\ Passed(derived.cur, 1) = Str("42"))
               => derived.cur.key = "user:id:42")
        /\ ((derived.prev.made /\ SameDeclaredValues(derived.prev, derived.cur))
               => derived.prev.key = derived.cur.key)

C17_Witness ==
    /\ derived.prev.made /\ derived.cur.made
    /\ derived.params = <<"name", "id">>
    /\ derived.prev.funcParams = <<"id", "name">>
    /\ derived.cur.funcParams = <<"name", "id">>
    /\ derived.prev.props = <<Str("42"), Num("0")>>
    /\ derived.cur.props = <<Num("0"), Str("42")>>
    /\ derived.cur.key = "user:name:0:id:42"
    /\ derived.prev.key = derived.cur.key

\* C18: a declared name that matches no parameter of the method is bound
\* to -1 and contributes no segment: the call derives the key it derives
\* with that name not declared, the bare cache name when no name matches.
C18_UnmatchedNameSkipped ==
    derived.cur.made =>
        /\ \A i \in Declared :
              indexOf(derived.cur.funcParams, derived.params[i], 1) < 0
                 => /\ getParamIndex(derived.cur.funcParams, derived.params)[i] = -1
                    /\ derived.cur.key = KeyWith(derived.cur, RemoveAt(derived.params, i))
        /\ derived.cur.key = KeyWith(derived.cur, Matched(derived.cur))
        /\ (Matched(derived.cur) = <<>> => derived.cur.key = derived.cacheName)

C18_Witness ==
    /\ derived.cur.made
    /\ derived.params = <<"id", "ghost">>
    /\ derived.cur.props = <<Str("42"), Str("42")>>
    /\ derived.cur.funcParams = <<"id", "name">>
    /\ derived.cur.key = "user:id:42"

\* C19: a declared parameter whose argument is undefined or missing
\* contributes no segment; one bound to an explicit falsy value (0, "",
\* false, null) contributes its segment, so that the two calls derive
\* different keys (keys that need no hashing).
C19_UndefinedVersusFalsy ==
    derived.cur.made =>
        /\ \A i \in Declared :
              LET without == KeyWith(derived.cur, RemoveAt(derived.params, i))
              IN  /\ Passed(derived.cur, i) = Undefined => derived.cur.key = without
                  /\ (Passed(derived.cur, i) \in Falsy
                         /\ Len(Assembled(derived.cur)) <= longKey)
                        => derived.cur.key # without
        /\ \A i \in Declared :
              (/\ derived.prev.made
               /\ \A j \in Declared \ {i} : Passed(derived.prev, j) = Passed(derived.cur, j)
               /\ Passed(derived.prev, i) = Undefined
               /\ Passed(derived.cur, i) \in Falsy
               /\ Len(Assembled(derived.cur)) <= longKey)
                 => derived.prev.key # derived.cur.key

C19_Witness ==
    /\ derived.prev.made /\ derived.cur.made
    /\ derived.params = <<"id">>
    /\ derived.prev.funcParams = <<"id", "name">>
    /\ derived.cur.funcParams = <<"id", "name">>
    /\ derived.prev.props = <<>>
    /\ derived.cur.props = <<Str("")>>
    /\ derived.prev.key = "user"
    /\ derived.cur.key = "user:id:"

\* the resolver is Ready: the cached handle's connection has completed
Ready == storeCache # NoStore /\ attempts[storeCache].st = "ok"

\* C20: from Ready, a GetCacheStore call, with options (a direct call) or
\* without (a wrapper's call), gets the cached handle in the step that makes
\* the call, starts no initialization attempt and installs no marker.
C20_ReadyFastPath ==
    [][\A p \in Procs :
          (Ready /\ call[p].pc = "idle" /\ call'[p].pc # "idle"
              /\ call'[p].m # "close")
             => /\ storeCache' = storeCache
                /\ attempts' = attempts
                /\ initPromise' = NoPromise
                /\ IF call'[p].pc = "done"
                   THEN /\ last'.m = "init" /\ last'.out.st = "ret"
                        /\ last'.store = storeCache
                   ELSE /\ call'[p].m \in MethodNames
                        /\ call'[p].store = storeCache
                        /\ call'[p].wait = NoPromise]_vars

C20_Witness ==
    /\ last.pc = "done" /\ last.m = "init" /\ last.out.st = "ret"
    /\ ~last.started /\ last.during = NoPromise /\ last.wait = NoPromise
    /\ last.store # NoStore /\ last.store = storeCache
    /\ attempts[last.store].st = "ok"

\* C21: when the cached handle reports that it is no longer connected, the
\* next GetCacheStore(options) call does not return it on the fast path: it
\* starts an initialization and runs the connection routine again.
C21_DisconnectedReinitializes ==
    (last.pc = "done" /\ last.m = "init" /\ last.lost) => last.started

\* C22: CloseCacheStore never throws, whether or not closing the client or
\* clearing the instances failed; the step that completes it leaves no
\* cached handle and no marker; and a GetCacheStore(options) call made with
\* neither in place starts an initialization on a new instance.
C22_CloseResets ==
    [][\A p \in Procs :
          /\ (call[p].pc = "closeClear" /\ call'[p].pc = "done")
                 => /\ last'.m = "close" /\ last'.out = Returned(Undefined)
                    /\ storeCache' = NoStore
                    /\ initPromise' = NoPromise
          /\ (storeCache = NoStore /\ initPromise = NoPromise
                 /\ call[p].pc = "idle" /\ call'[p].m = "init")
                 => /\ call'[p].pc = "awaitInit" /\ call'[p].started
                    /\ storeCache' # NoStore
                    /\ attempts[storeCache'].st = "unused"
                    /\ attempts'[storeCache'].st \in {"pending", "fail"}
                    /\ call'[p].wait = storeCache']_vars

\* a close whose quit and clear both failed has returned, and the next
\* GetCacheStore(options) has started an initialization on a second instance
C22_Witness ==
    /\ last.pc = "done" /\ last.m = "close" /\ last.out = Returned(Undefined)
    /\ \E i, j \in DOMAIN last.log :
          /\ last.log[i].op = "quit" /\ ~last.log[i].ok
          /\ last.log[j].op = "clear" /\ ~last.log[j].ok
    /\ \E p \in Procs : call[p].pc = "awaitInit" /\ call[p].started
                            /\ call[p].wait = storeCache
    /\ storeCache > 1
    /\ attempts[storeCache].st = "pending"

\* the resolver holds neither a handle nor a marker
Uninitialized == storeCache = NoStore /\ initPromise = NoPromise

\* C23: lifecycle.  After KoattyCached and until appReady nothing is
\* connected or cached; the appReady handler makes the first resolution,
\* which creates the first instance; every completed appStop handler leaves
\* the resolver Uninitialized, and it stays so; a wrapped call made before
\* appReady or once an appStop has reset the resolver gets no store and no
\* promise to wait for, and its next step runs the operation directly.
C23_Lifecycle ==
    [][\A p \in Procs :
          /\ ~AppReadyEmitted
                 => (Uninitialized /\ \A a \in Attempts : attempts[a].st = "unused")
          /\ (~AppReadyEmitted /\ call[p].pc = "idle" /\ call'[p].m = "init")
                 => /\ call'[p].started /\ storeCache' = 1
                    /\ attempts'[1].st \in {"pending", "fail"}
          /\ (call[p].pc = "closeClear" /\ call'[p].pc = "done") => Uninitialized'
          /\ (AppReadyEmitted /\ storeCache = NoStore) => Uninitialized'
          /\ ((~AppReadyEmitted \/ storeCache = NoStore)
                 /\ call[p].pc = "idle" /\ call'[p].pc = "resolve")
                 => (call'[p].store = NoStore /\ call'[p].wait = NoPromise)
          /\ (call[p].pc = "resolve" /\ call[p].store = NoStore
                 /\ call[p].wait = NoPromise /\ call'[p] # call[p])
                 => /\ call'[p].pc = "done"
                    /\ Wrapped(last') /\ last'.store = NoStore
                    /\ OutcomeIsOperation(last')
                    /\ Entries(last', StoreOps) = {}]_vars

\* a wrapped call made after the store had connected and an appStop had
\* reset the resolver has run the operation directly
C23_Witness ==
    /\ Wrapped(last) /\ last.store = NoStore /\ last.out.st = "ret"
    /\ Len(last.log) = 1 /\ last.log[1].op = "run"
    /\ attempts[1].st = "ok"
    /\ Uninitialized

\* C24: the order the README documents for delayed double deletion: a
\* CacheEvict call deletes the entry first, runs the update after the
\* delete, and leaves a second delete to fire after the delay.
C24_DeleteThenUpdate ==
    (Wrapped(last) /\ last.m \in EvictNames /\ last.store # NoStore
        /\ last.out.st = "ret")
        => /\ Len(last.log) >= 2
           /\ last.log[1].op = "del"
           /\ last.log[2].op = "run"

\* the deferred deletes pending for the call numbered n
TimersOf(n) == {t \in timers : t.n = n}

\* a CacheEvict call that returned after its operation, with a store
Evicted(c) ==
    /\ Wrapped(c) /\ c.m \in EvictNames /\ c.store # NoStore /\ c.out.st = "ret"

\* C25: a CacheEvict call that completes with delayed double deletion
\* enabled leaves one deferred delete pending, with the delay; it fires, and
\* once it has fired, failed or not, none is pending for that call any more.
\* With delayed double deletion disabled the call leaves no deferred delete
\* and has issued exactly one delete.
C25_DeferredOnce ==
    /\ [](Evicted(last) /\ delayedDoubleDeletion(last.m)
             => /\ Cardinality(TimersOf(last.n)) = 1
                /\ \A t \in TimersOf(last.n) : t.delay = DefaultDelay
                /\ Cardinality(Entries(last, {"del"})) = 1)
    /\ [](Evicted(last) /\ ~delayedDoubleDeletion(last.m)
             => /\ TimersOf(last.n) = {}
                /\ Cardinality(Entries(last, {"del"})) = 1)
    /\ [](last.m = "deferred"
             => (TimersOf(last.n) = {} /\ Len(last.log) = 1))
    /\ \A n \in Procs :
          (TimersOf(n) # {}) ~> (last.m = "deferred" /\ last.n = n)

\* a deferred delete has fired and failed, and nothing is pending for its call
C25_Witness ==
    /\ last.m = "deferred" /\ ~last.log[1].ok
    /\ TimersOf(last.n) = {}
    /\ data[last.key] # Absent

\* C26: cache writes do not block.  A CacheAble miss that issued its set
\* returns the operation's result in the same step, whether the set takes
\* effect or fails; a CacheEvict call with delayed double deletion returns
\* the operation's result while its deferred delete is still pending.
C26_NonBlockingWrites ==
    /\ (Wrapped(last) /\ last.m \in AbleNames /\ Entries(last, {"set"}) # {})
          => /\ last.out = Returned(last.result)
             /\ Entries(last, {"set"}) = {Len(last.log)}
    /\ (Evicted(last) /\ delayedDoubleDeletion(last.m))
          => /\ last.out = Returned(last.result)
             /\ TimersOf(last.n) # {}

\* a miss whose set failed has returned the operation's result
C26_Witness ==
    /\ Wrapped(last) /\ last.m \in AbleNames
    /\ Len(last.log) = 3
    /\ last.log[3].op = "set" /\ ~last.log[3].ok
    /\ last.out = Returned(last.result)
    /\ last.result = Obj(ObjText("1", "0"))
    /\ data[last.key] = Absent

\* the call's get worked and found no entry
ColdRead(c) ==
    /\ Len(c.log) >= 1 /\ c.log[1].op = "get" /\ c.log[1].ok
    /\ c.res = Null

\* C27: of the CacheAble calls that are in flight together on one key of a
\* cold cache, one invokes the operation and the others return its result:
\* a call that returns while an earlier call on the same key has run the
\* operation and not yet returned has not run the operation itself.
C27_ConcurrentMissesShareOneRun ==
    \A p \in Procs :
        (Wrapped(last) /\ last.m \in AbleNames /\ ColdRead(last)
            /\ call[p].pc = "afterOp" /\ call[p].m \in AbleNames
            /\ ColdRead(call[p])
            /\ call[p].n < last.n /\ call[p].key = last.key)
            => Runs(last) = 0

\* C28: TTL priority.  The TTL a CacheAble miss passes to store.set is the
\* decorator's timeout when one is given, and otherwise the CacheManager's
\* default timeout at the time of the call.
C28_TTLPriority ==
    config.seen.op = "miss"
       => config.seen.ttl = IF config.seen.opt # Undefined THEN config.seen.opt
                            ELSE config.seen.global

\* C29: a CacheEvict call schedules the deferred delete exactly when the
\* effective setting is true: the decorator's option when given, otherwise
\* the CacheManager's default at the time of the call (true, where there is
\* no CacheManager); with the effective setting false the call issues one
\* delete in all.
C29_EffectiveSetting ==
    config.seen.op = "evict"
       => LET own == config.seen.opt
              effective == IF own # Undefined THEN own ELSE config.seen.global
              merged == IF own # Undefined THEN own ELSE Bool("true")
          IN  /\ config.seen.scheduled <=> (effective = Bool("true"))
              /\ config.seen.scheduledMerged <=> (merged = Bool("true"))
              /\ (effective = Bool("false")
                    => (~config.seen.pending /\ config.seen.dels = 1))
              /\ config.seen.dels
                    = 1 + (IF config.seen.scheduled /\ ~config.seen.pending
                           THEN 1 ELSE 0)

\* a method without an option of its own, called after the global default
\* was switched off, has issued its one delete and scheduled nothing
C29_Witness ==
    /\ config.seen.op = "evict" /\ config.seen.opt = Undefined
    /\ config.seen.global = Bool("false")
    /\ ~config.seen.scheduled /\ config.seen.dels = 1
    /\ config.seen.scheduledMerged

\* C30: order within one CacheAble call that has a store.  The get is the
\* first step and there is one; the operation runs at most once, after the
\* get, and only when the read was a miss (empty, failed or not decodable);
\* a set is issued at most once, after the operation, and only when the
\* operation returned; a call whose operation threw issued no set.
C30_CallOrder ==
    (Wrapped(last) /\ last.m \in AbleNames /\ last.store # NoStore)
       => /\ Entries(last, {"get"}) = {1}
          /\ Runs(last) <= 1
          /\ Cardinality(Entries(last, {"set"})) <= 1
          /\ \A i \in Entries(last, {"run"}) :
                /\ i > 1
                /\ (~last.log[1].ok \/ isEmpty(last.res) \/ ~JSONparse(last.res).ok)
                /\ (~last.log[i].ok => Entries(last, {"set"}) = {})
          /\ \A j \in Entries(last, {"set"}) :
                /\ j = Len(last.log)
                /\ last.log[j - 1].op = "run" /\ last.log[j - 1].ok

\* a call whose read failed has run the operation and then issued its set
C30_Witness ==
    /\ Wrapped(last) /\ last.m \in AbleNames /\ last.store # NoStore
    /\ Len(last.log) = 3
    /\ last.log[1].op = "get" /\ ~last.log[1].ok
    /\ last.log[2].op = "run" /\ last.log[2].ok
    /\ last.log[3].op = "set" /\ last.log[3].ok
    /\ data[last.key] # Absent

\* nothing of this layer is in flight: no call between its start and its
\* return and no deferred delete pending
Quiet == timers = {} /\ \A p \in Procs : call[p].pc \in {"idle", "done"}

\* a CacheAble miss whose set took effect, after deletes of evictions that
\* took effect between its get and that set
LateSet(c) ==
    /\ Wrapped(c) /\ c.m \in AbleNames /\ c.evicts # {}
    /\ Len(c.log) >= 1
    /\ c.log[Len(c.log)].op = "set" /\ c.log[Len(c.log)].ok

\* while nothing is in flight an entry is left as it is, or expires
EntriesKept ==
    [][\A k \in Keys :
          (Quiet /\ data[k] # Absent)
             => \/ data'[k] = data[k]
                \/ (data'[k] = Absent /\ call' = call /\ last' = last)]_vars

\* C31: the stale-repopulation race.  When the delete of an eviction takes
\* effect between a CacheAble call's get and its set, the set still writes
\* the call's result, which is the entry of the key when the call returns
\* (snap, the entry read back at the return); and once nothing
\* is in flight, no step of this layer removes an entry (it can only expire).
C31_StaleRepopulation ==
    /\ [](LateSet(last) => last.snap = Encoded(last.result).val)
    /\ EntriesKept

\* one reader and one call of delUser (no delayed double deletion): the
\* reader read the empty key and computed version 0, the update made version
\* 1 and deleted, the reader's set landed; nothing is in flight
C31_Witness ==
    /\ LateSet(last) /\ ColdRead(last) /\ last.evicts = {"delUser"}
    /\ last.result = Obj(ObjText("1", "0")) /\ db = 1
    /\ data[last.key] = Str(ObjText("1", "0"))
    /\ Quiet

\* C32: delayed double deletion does not close the race.  When the
\* deferred delete too takes effect before the set of a CacheAble call that
\* read the key earlier, the set writes the call's result after both
\* deletes, and it is the entry of the key when the call returns.
C32_DeferredDeleteTooEarly ==
    (LateSet(last) /\ "deferred" \in last.evicts)
       => /\ last.snap = Encoded(last.result).val
          /\ last.out = Returned(last.result)

\* one reader and one call of setUser (delayed double deletion): both
\* deletes took effect while the reader held version 0, then its set landed
C32_Witness ==
    /\ LateSet(last) /\ ColdRead(last) /\ last.evicts = {"setUser", "deferred"}
    /\ last.result = Obj(ObjText("1", "0")) /\ db = 1
    /\ data[last.key] = Str(ObjText("1", "0"))
    /\ Quiet

\* C33: a CacheEvict call deletes only after its operation has returned: a
\* call that returned has run the operation and then issued its delete; a
\* call whose operation threw ends with that error in the step that ran the
\* operation, has issued no delete, and that step leaves the entries and the
\* timers as they were.
C33_FailedUpdateKeepsEntry ==
    /\ [](Evicted(last)
             => /\ Len(last.log) = 2
                /\ last.log[1].op = "run" /\ last.log[1].ok
                /\ last.log[2].op = "del")
    /\ [][\A p \in Procs :
             (call[p].pc = "resolve" /\ call[p].m \in EvictNames
                 /\ call'[p].pc = "done" /\ last'.store # NoStore
                 /\ ~last'.log[Len(last'.log)].ok)
                => /\ last'.out = Thrown("OperationError")
                   /\ last'.log = <<LogEntry("run", "", FALSE, 0)>>
                   /\ data' = data
                   /\ timers' = timers
                   /\ db' = db]_vars

\* an update that threw has left the cached entry in place and no timer
C33_Witness ==
    /\ Wrapped(last) /\ last.m = "setUser" /\ last.store # NoStore
    /\ last.out = Thrown("OperationError")
    /\ Entries(last, {"del"}) = {}
    /\ TimersOf(last.n) = {}
    /\ data[last.key] = Str(ObjText("1", "0"))

\* the resolver's state
resolver == <<storeCache, initPromise, attempts>>

\* C34: the wrappers never change resolver state.  A step in which a
\* wrapped call starts, moves on or returns, or in which a deferred delete
\* fires, leaves the cached handle, the marker and the initialization
\* attempts as they were; a step that changes them is a step of a
\* GetCacheStore(options) call, of an initialization it started, of a
\* CloseCacheStore call, or the loss of a connection.
C34_WrappersLeaveResolver ==
    [][/\ \A p \in Procs :
             (call'[p] # call[p]
                 /\ (call[p].m \in MethodNames \/ call'[p].m \in MethodNames))
                => resolver' = resolver
       /\ timers' # timers => resolver' = resolver
       /\ resolver' # resolver
             => \/ \E p \in Procs :
                      /\ call'[p] # call[p]
                      /\ \/ call[p].m \in {"init", "close"}
                         \/ call'[p].m \in {"init", "close"}
                         \/ last'.m \in {"init", "close"} /\ last' # last
                \/ /\ call' = call /\ last' = last
                   /\ data' = data /\ timers' = timers /\ db' = db]_vars

\* a wrapped call was made and has returned while an initialization was in
\* flight, which is still in flight, its marker in place
C34_Witness ==
    /\ Wrapped(last) /\ last.wait = NoPromise /\ last.store # NoStore
    /\ last.store = storeCache /\ initPromise = storeCache
    /\ attempts[storeCache].st = "pending"
    /\ Entries(last, StoreOps) # {}

C36_AtMostOneRun == variant.runs <= 1

\* C37: for one decoration and one method, two calls whose declared
\* parameters differ in value or presence derive different keys whenever both
\* assembled keys are within longKey characters, also when a value contains
\* the separator.
C37_InjectiveBelowThreshold ==
    ( /\ derived.prev.made /\ derived.cur.made
      /\ derived.prev.funcParams = derived.cur.funcParams
      /\ ~SameDeclaredValues(derived.prev, derived.cur)
      /\ Len(Assembled(derived.prev)) <= longKey
      /\ Len(Assembled(derived.cur)) <= longKey )
    => derived.prev.key # derived.cur.key

\* C38: an initialization attempt that settles does not hand its waiters the
\* handle of another attempt, and does not clear the in-flight marker of
\* another attempt.
C38_SettleTouchesOwnAttempt ==
    /\ [](\A a \in Attempts :
            attempts[a].st = "ok" => attempts[a].ret \in {a, NoStore})
    /\ [][\A a \in Attempts :
            ( /\ attempts[a].st = "pending"
              /\ attempts'[a].st # "pending"
              /\ initPromise \notin {NoPromise, a} )
            => initPromise' = initPromise]_vars

\* a store operation the step issues for the wrapped call of p
IssuedOps(p) ==
    LET after == IF call'[p].pc = "done" THEN last' ELSE call'[p]
    IN  IF call[p].m \in MethodNames /\ call[p].pc \notin {"idle", "done"}
           /\ call'[p].pc # call[p].pc
        THEN {i \in DOMAIN after.log :
                 i > Len(call[p].log) /\ after.log[i].op \in StoreOps}
        ELSE {}
\* the step fires a deferred delete
DeferredFires == last' # last /\ last'.m = "deferred"

\* C39: no get, set or delete of a wrapped call and no deferred delete is
\* issued on a handle that a completed CloseCacheStore has closed.
C39_NoOperationAfterClose ==
    [][ /\ \A p \in Procs :
              IssuedOps(p) # {} => ~attempts[call[p].store].closed
        /\ DeferredFires => ~attempts[last'.store].closed ]_vars

====
